---- MODULE Spec2Model ----
(***************************************************************************)
(* InterHand3DDataset (mmpose/datasets/datasets/hand/interhand3d_dataset.py)*)
(*                                                                         *)
(* Two state machines over one set of variables:                           *)
(*   SpecDb   - construction of the dataset: __init__ and _get_db, one     *)
(*              step per loop iteration over the annotated images;         *)
(*   SpecEval - one call of evaluate: metric validation, the loop over the *)
(*              output batches, sort/dedup/write, _report_metric.          *)
(*                                                                         *)
(* Numbers are integers.  Coordinates live on a grid on which the          *)
(* divisions of _cam2pixel and _pixel2cam are exact; the 1e-8 guard of     *)
(* _cam2pixel is below the grid's resolution.  A mean is kept as the pair  *)
(* (sum, n) of its numerator and divisor; NaN is the mean of nothing.      *)
(* An exception is the program counter "raised" plus the exception in      *)
(* the variable error.                                                     *)
(***************************************************************************)
EXTENDS Integers, Sequences, FiniteSets, TLC

VARIABLES
    pc,                 \* position of the running call
    error,              \* [type, msg] of the exception raised, NoError before
    \* ---- constructor arguments and the annotation index (self.coco, self.img_ids)
    rootnet_arg,        \* argument rootnet_result_file: [given, table]
    img_ids,            \* sequence of annotated images, in self.img_ids order
    \* ---- the dataset object
    use_gt_root_depth,  \* self.use_gt_root_depth
    rootnet_result_file,\* self.rootnet_result_file: [set, table]
    db,                 \* self.db
    \* ---- locals of _get_db
    rootnet_result,     \* [bound, table]: the local is unbound until assigned
    gt_db,
    bbox_id,
    img_pos,            \* index into img_ids of the next image
    table_read,         \* the root-depth-estimate file has been opened and read
    \* ---- arguments and locals of evaluate / _report_metric
    metric,             \* argument metric, as the list `metrics`
    outputs,            \* argument outputs: sequence of batches
    batch_pos,          \* index into outputs of the next batch
    kpts,
    res_file,           \* [written, preds]: result_keypoints.json
    masks,              \* the mask lists of _report_metric
    name_value          \* the returned mapping, as a sequence of <<name, value>>

vars == <<pc, error, rootnet_arg, img_ids, use_gt_root_depth, rootnet_result_file,
          db, rootnet_result, gt_db, bbox_id, img_pos, table_read,
          metric, outputs, batch_pos, kpts, res_file, masks, name_value>>

dbVars == <<rootnet_arg, img_ids, use_gt_root_depth, rootnet_result_file,
            rootnet_result, gt_db, bbox_id, img_pos, table_read>>

evalVars == <<metric, outputs, batch_pos, kpts, res_file, masks, name_value>>

-----------------------------------------------------------------------------
(* Bounds of the model *)

\* images in the annotation file / records in self.db
MaxImgs == 2

-----------------------------------------------------------------------------
(* Constants of the program *)

num_joints == 42
JointsPerHand == 21
RightWrist == 20
LeftWrist == 41
\* the column index lines 266-267 use for the depth
DepthCol == 3
\* joints_3d = np.zeros((num_joints, 3))
JointDims == 3
\* padding factors of _xywh2cs, in hundredths
PadGt == 125
PadRootnet == 100

Joints == 0 .. (num_joints - 1)
RightHand == 0 .. RightWrist
LeftHand == JointsPerHand .. LeftWrist

NoError == [type |-> "none", msg |-> ""]
Err(t, m) == [type |-> t, msg |-> m]

-----------------------------------------------------------------------------
(* Coordinate transforms *)

Dot3(r, v) == r[1] * v[1] + r[2] * v[2] + r[3] * v[3]

\* cam_coord = np.dot(R, world_coord - T), one joint (one column) at a time
World2Cam(w, R, T) ==
    LET d == <<w[1] - T[1], w[2] - T[2], w[3] - T[3]>>
    IN  <<Dot3(R[1], d), Dot3(R[2], d), Dot3(R[3], d)>>

\* x = cam_x / (cam_z + 1e-8) * f[0] + c[0]; y alike; z = 0
Cam2Pixel(p, f, c) ==
    <<(p[1] \div p[3]) * f[1] + c[1], (p[2] \div p[3]) * f[2] + c[2], 0>>

\* x = (pix_x - c[0]) / f[0] * pix_z; y alike; z = pix_z
Pixel2Cam(p, f, c) ==
    <<((p[1] - c[1]) \div f[1]) * p[3], ((p[2] - c[2]) \div f[2]) * p[3], p[3]>>

\* _process_handtype: the vector, or <<>> where the code asserts 0
ProcessHandtype(hand_type) ==
    IF hand_type = "right" THEN <<1, 0>>
    ELSE IF hand_type = "left" THEN <<0, 1>>
    ELSE IF hand_type = "interacting" THEN <<1, 1>>
    ELSE <<>>

\* _xywh2cs of the base class: center of the box (in half pixels) and its
\* size scaled by the padding factor (in hundredths)
Xywh2cs(bbox, padding) ==
    [center |-> <<2 * bbox[1] + bbox[3], 2 * bbox[2] + bbox[4]>>,
     scale  |-> <<bbox[3] * padding, bbox[4] * padding>>]

\* numpy's bounds check of an index along an axis of the given size
IndexInBounds(i, size) == i \in (0 - size) .. (size - 1)

Min(a, b) == IF a < b THEN a ELSE b

-----------------------------------------------------------------------------
(* The annotation file, the camera file and the joint file *)

\* cameras[capture]: campos, camrot, focal, princpt of the one camera used
Cameras(capture) ==
    IF capture = 0
    THEN [campos |-> <<0, 0, 0>>,
          camrot |-> <<<<1, 0, 0>>, <<0, 1, 0>>, <<0, 0, 1>>>>,
          focal |-> <<2, 2>>, princpt |-> <<5, 7>>]
    ELSE [campos |-> <<4, 0, 0>>,
          camrot |-> <<<<0, 1, 0>>, <<1, 0, 0>>, <<0, 0, 1>>>>,
          focal |-> <<3, 2>>, princpt |-> <<6, 4>>]

\* joints[capture][frame]['world_coord'][j]: the right hand lies nearer to
\* the camera than the left one; every joint is on the exact grid
WorldCoord(capture, j) ==
    LET z == IF j \in RightHand THEN 10 + capture + (j % 3) ELSE 14 + (j % 2)
        a == j % 4
        b == j % 5
    IN  IF capture = 0
        THEN <<a * z, b * z, z>>
        ELSE <<b * z + 4, a * z, z>>

AllValid == [j \in Joints |-> 1]
JointValidInputs ==
    { AllValid,
      [AllValid EXCEPT ![RightWrist] = 0],
      [AllValid EXCEPT ![LeftWrist] = 0],
      [AllValid EXCEPT ![3] = 0, ![25] = 0] }

HandTypeLabels == {"right", "left", "interacting", "two"}

\* one annotation of the index, without its ids
Annotations ==
    [capture : {0, 1}, joint_valid : JointValidInputs,
     hand_type : HandTypeLabels, hand_type_valid : BOOLEAN]

AnnBbox(capture) == IF capture = 0 THEN <<10, 20, 40, 60>> ELSE <<12, 16, 32, 48>>

\* the image ids of the index are 0, 1, ... in self.img_ids order, and the
\* annotation of image i has id 100 + i
AnnIdOf(img_id) == 100 + img_id

SeqsUpTo(S, n) == UNION { [1 .. k -> S] : k \in 0 .. n }

\* the root-depth-estimate file: a set of entries keyed by annot_id
RootnetEntry(ann_id) ==
    [annot_id |-> ann_id, bbox |-> <<11, 21, 38, 58>>,
     abs_depth |-> <<13 + (ann_id % 2), 16>>]
RootnetTables ==
    { {RootnetEntry(AnnIdOf(i)) : i \in 0 .. k} : k \in {0, MaxImgs} }

NoTable == {}
HasEntry(table, ann_id) == \E e \in table : e.annot_id = ann_id
Lookup(table, ann_id) == CHOOSE e \in table : e.annot_id = ann_id

-----------------------------------------------------------------------------
(* _get_db: the body of the loop over self.img_ids *)

JointCam(ann) ==
    LET cam == Cameras(ann.capture)
    IN  [j \in Joints |-> World2Cam(WorldCoord(ann.capture, j), cam.camrot, cam.campos)]

\* lines 260-261: joint_valid[:20] *= joint_valid[20]; joint_valid[21:] *= joint_valid[41]
PropagateValid(jv) ==
    [j \in Joints |->
        IF j < RightWrist THEN jv[j] * jv[RightWrist]
        ELSE IF j >= JointsPerHand THEN jv[j] * jv[LeftWrist]
        ELSE jv[j]]

\* a column index of numpy, as a position of a TLA+ tuple
Col(i, size) == (IF i < 0 THEN size + i ELSE i) + 1

\* lines 263-267: zeros, [:, :2] = joint_img, [:, col] = depth relative to
\* the wrist of the joint's hand
Joints3dAt(joint_cam, focal, princpt, col) ==
    [j \in Joints |->
        LET img == Cam2Pixel(joint_cam[j], focal, princpt)
            root == IF j < JointsPerHand THEN RightWrist ELSE LeftWrist
            k == Col(col, JointDims)
        IN  [<<img[1], img[2], 0>> EXCEPT ![k] = joint_cam[j][k] - joint_cam[root][k]]]

Joints3d(joint_cam, focal, princpt) == Joints3dAt(joint_cam, focal, princpt, DepthCol)

\* line 268: joints_3d_visible[...] = np.minimum(1, joint_valid.reshape(-1, 1))
Joints3dVisible(jv) ==
    [j \in Joints |-> LET m == Min(1, jv[j]) IN <<m, m, m>>]

\* lines 248-256: the box and the absolute depth of the two wrists
BoxAndDepth(ann, ann_id, joint_cam, use_gt, table) ==
    IF use_gt
    THEN [bbox |-> AnnBbox(ann.capture), padding |-> PadGt,
          abs_depth |-> <<joint_cam[RightWrist][3], joint_cam[LeftWrist][3]>>]
    ELSE LET e == Lookup(table, ann_id)
         IN  [bbox |-> e.bbox, padding |-> PadRootnet, abs_depth |-> e.abs_depth]

\* lines 270-288: the record appended for one image, given its joints_3d
RecordWith(ann, img_id, id, use_gt, table, joints_3d) ==
    LET cam == Cameras(ann.capture)
        joint_cam == JointCam(ann)
        bd == BoxAndDepth(ann, AnnIdOf(img_id), joint_cam, use_gt, table)
        cs == Xywh2cs(bd.bbox, bd.padding)
    IN  [image_id |-> img_id,
         center |-> cs.center,
         scale |-> cs.scale,
         joints_3d |-> joints_3d,
         joints_3d_visible |-> Joints3dVisible(PropagateValid(ann.joint_valid)),
         hand_type |-> ProcessHandtype(ann.hand_type),
         hand_type_valid |-> ann.hand_type_valid,
         rel_root_depth |-> joint_cam[LeftWrist][3] - joint_cam[RightWrist][3],
         abs_depth |-> bd.abs_depth,
         joints_cam |-> joint_cam,
         focal |-> cam.focal,
         princpt |-> cam.princpt,
         bbox |-> bd.bbox,
         bbox_id |-> id]

Record(ann, img_id, id, use_gt, table) ==
    LET cam == Cameras(ann.capture)
    IN  RecordWith(ann, img_id, id, use_gt, table,
                   Joints3d(JointCam(ann), cam.focal, cam.princpt))

\* the exception one iteration of the loop ends in, in statement order, or
\* NoError when the iteration reaches gt_db.append
ImageError(ann, img_id, use_gt, local) ==
    IF ProcessHandtype(ann.hand_type) = <<>>
    THEN Err("AssertionError", "hand type")
    ELSE IF ~use_gt /\ ~local.bound
    THEN Err("UnboundLocalError", "rootnet_result")
    ELSE IF ~use_gt /\ ~HasEntry(local.table, AnnIdOf(img_id))
    THEN Err("KeyError", "annot_id")
    ELSE IF ~IndexInBounds(DepthCol, JointDims)
    THEN Err("IndexError", "axis 1")
    ELSE NoError

\* sorted(gt_db, key=lambda x: x['bbox_id']): stable insertion sort
RECURSIVE InsertById(_, _)
InsertById(s, r) ==
    IF s = <<>> THEN <<r>>
    ELSE IF s[Len(s)].bbox_id <= r.bbox_id THEN Append(s, r)
    ELSE Append(InsertById(SubSeq(s, 1, Len(s) - 1), r), s[Len(s)])

RECURSIVE SortByBboxId(_)
SortByBboxId(s) ==
    IF s = <<>> THEN <<>>
    ELSE InsertById(SortByBboxId(SubSeq(s, 1, Len(s) - 1)), s[Len(s)])

-----------------------------------------------------------------------------
(* Construction: __init__ and _get_db *)

NoFile == [set |-> FALSE, table |-> NoTable]
Unbound == [bound |-> FALSE, table |-> NoTable]
NoMasks == [rel_root |-> <<>>, hand_type |-> <<>>, all |-> <<>>,
            single |-> <<>>, interacting |-> <<>>]
NoResFile == [written |-> FALSE, preds |-> <<>>]

InitDb ==
    /\ pc = "init"
    /\ error = NoError
    /\ use_gt_root_depth \in BOOLEAN
    /\ rootnet_arg \in
         {[given |-> FALSE, table |-> NoTable]}
           \cup {[given |-> TRUE, table |-> t] : t \in RootnetTables}
    /\ img_ids \in SeqsUpTo(Annotations, MaxImgs)
    /\ rootnet_result_file = NoFile
    /\ db = <<>>
    /\ rootnet_result = Unbound
    /\ gt_db = <<>>
    /\ bbox_id = 0
    /\ img_pos = 1
    /\ table_read = FALSE
    /\ metric = <<>>
    /\ outputs = <<>>
    /\ batch_pos = 1
    /\ kpts = <<>>
    /\ res_file = NoResFile
    /\ masks = NoMasks
    /\ name_value = <<>>

Raise(e) ==
    /\ pc' = "raised"
    /\ error' = e

\* __init__, lines 102-105, up to the call of _get_db
Construct ==
    /\ pc = "init"
    /\ IF use_gt_root_depth
       THEN IF ~rootnet_arg.given
            THEN /\ Raise(Err("AssertionError", "rootnet_result_file"))
                 /\ UNCHANGED rootnet_result_file
            ELSE /\ rootnet_result_file' = [set |-> TRUE, table |-> rootnet_arg.table]
                 /\ pc' = "get_db"
                 /\ UNCHANGED error
       ELSE /\ pc' = "get_db"
            /\ UNCHANGED <<error, rootnet_result_file>>
    /\ UNCHANGED <<rootnet_arg, img_ids, use_gt_root_depth, db, rootnet_result,
                   gt_db, bbox_id, img_pos, table_read>>
    /\ UNCHANGED evalVars

\* _get_db, lines 199-213: the files are loaded, the loop is entered
GetDbLoad ==
    /\ pc = "get_db"
    /\ IF use_gt_root_depth
       THEN IF ~rootnet_result_file.set
            THEN /\ Raise(Err("AttributeError", "rootnet_result_file"))
                 /\ UNCHANGED <<rootnet_result, table_read>>
            ELSE /\ rootnet_result' = [bound |-> TRUE, table |-> rootnet_result_file.table]
                 /\ table_read' = TRUE
                 /\ pc' = "loop"
                 /\ UNCHANGED error
       ELSE /\ pc' = "loop"
            /\ UNCHANGED <<error, rootnet_result, table_read>>
    /\ gt_db' = <<>>
    /\ bbox_id' = 0
    /\ img_pos' = 1
    /\ UNCHANGED <<rootnet_arg, img_ids, use_gt_root_depth, rootnet_result_file, db>>
    /\ UNCHANGED evalVars

\* _get_db, lines 214-289: one iteration of the loop
GetDbImage ==
    /\ pc = "loop"
    /\ img_pos <= Len(img_ids)
    /\ LET ann == img_ids[img_pos]
           img_id == img_pos - 1
           e == ImageError(ann, img_id, use_gt_root_depth, rootnet_result)
       IN  IF e # NoError
           THEN /\ Raise(e)
                /\ UNCHANGED <<gt_db, bbox_id, img_pos>>
           ELSE /\ gt_db' = Append(gt_db, Record(ann, img_id, bbox_id,
                                                use_gt_root_depth, rootnet_result.table))
                /\ bbox_id' = bbox_id + 1
                /\ img_pos' = img_pos + 1
                /\ UNCHANGED <<pc, error>>
    /\ UNCHANGED <<rootnet_arg, img_ids, use_gt_root_depth, rootnet_result_file,
                   db, rootnet_result, table_read>>
    /\ UNCHANGED evalVars

\* _get_db, lines 290-292, and the assignment of line 107
GetDbReturn ==
    /\ pc = "loop"
    /\ img_pos > Len(img_ids)
    /\ db' = SortByBboxId(gt_db)
    /\ pc' = "constructed"
    /\ UNCHANGED <<error, rootnet_arg, img_ids, use_gt_root_depth, rootnet_result_file,
                   rootnet_result, gt_db, bbox_id, img_pos, table_read>>
    /\ UNCHANGED evalVars

NextDb == Construct \/ GetDbLoad \/ GetDbImage \/ GetDbReturn

SpecDb == InitDb /\ [][NextDb]_vars

-----------------------------------------------------------------------------
(* evaluate: arguments *)

\* line 323
allowed_metrics == {"MRRPE", "MPJPE", "Handedness_acc"}
MetricNames == allowed_metrics \cup {"PCK"}

\* a single name (the list of one name, line 322) or a list of two names
MetricSelections ==
    {<<a>> : a \in MetricNames}
      \cup {p \in MetricNames \X MetricNames : p[1] # p[2]}

InList(x, s) == \E i \in 1 .. Len(s) : s[i] = x

\* the optional keys of an output batch
Fields == {"preds", "hand_type", "rel_root_depth"}

\* image_paths[i] and bbox_ids[i] of a sample.  The path is one of the index
\* (name2id knows it) and is named by the image id it resolves to; the bbox
\* id is the one of the image's record, or the first id no record has
SampleIds(n) ==
    {[image_id |-> i, bbox_id |-> i] : i \in 0 .. (n - 1)}
      \cup {[image_id |-> 0, bbox_id |-> n] : i \in 1 .. Min(n, 1)}

\* the optional keys of a batch: all of them, or all but one
FieldSets == {Fields} \cup {Fields \ {f} : f \in Fields}

\* an output batch: the optional keys it has, and its samples (none or one)
Batches(n) ==
    [has : FieldSets, ids : {<<>>} \cup {<<id>> : id \in SampleIds(n)}]

\* the argument outputs: no batch, one batch or two
OutputsOf(n) ==
    {<<>>} \cup {<<b>> : b \in Batches(n)}
           \cup {<<b, c>> : b \in Batches(n), c \in Batches(n)}

\* boxes[i]: center, scale, area, score
Boxes == <<1, 1, 1, 1, 1, 1>>

\* the model output of the batch at position pos: the first batch predicts
\* the ground truth, the next one is off, and so on in turn
VariantOf(pos) == (pos - 1) % 2

\* self.db as the Database Builder is specified to return it for a list of
\* annotations with supported hand types: joints_3d with the depth in its
\* third column, ground-truth root depth
DbOf(anns) ==
    [i \in 1 .. Len(anns) |->
        LET cam == Cameras(anns[i].capture)
        IN  RecordWith(anns[i], i - 1, i - 1, TRUE, NoTable,
                       Joints3dAt(JointCam(anns[i]), cam.focal, cam.princpt, 2))]

EvalAnnotations ==
    { [capture |-> 0, joint_valid |-> [AllValid EXCEPT ![3] = 0, ![25] = 0],
       hand_type |-> "interacting", hand_type_valid |-> TRUE],
      [capture |-> 1, joint_valid |-> AllValid,
       hand_type |-> "interacting", hand_type_valid |-> FALSE],
      [capture |-> 0, joint_valid |-> [AllValid EXCEPT ![LeftWrist] = 0],
       hand_type |-> "interacting", hand_type_valid |-> TRUE],
      [capture |-> 1, joint_valid |-> [AllValid EXCEPT ![LeftWrist] = 0],
       hand_type |-> "right", hand_type_valid |-> TRUE] }

\* the arrays of a batch for the sample of image item.image_id
PredKeypoints(item, v) ==
    [j \in Joints |->
        LET g == item.joints_3d[j]
        IN  IF v = 0 THEN g ELSE <<g[1] + 6, g[2], g[3] + (j % 2)>>]
PredHandType(item, v) == IF v = 0 THEN item.hand_type ELSE <<1, 0>>
PredRelRootDepth(item, v) == item.rel_root_depth + v

-----------------------------------------------------------------------------
(* evaluate: lines 322-381 *)

\* the check of line 325 applied to the first name only
UnsupportedFirstOnly(ms) == {i \in {1} : ms[i] \notin allowed_metrics}

\* lines 324-326: the positions of the names that are not allowed
Unsupported(ms) == {i \in 1 .. Len(ms) : ms[i] \notin allowed_metrics}

\* f'metric {metric} is not supported'
NotSupported(m) ==
    Err("KeyError",
        CASE m = "MRRPE" -> "metric MRRPE is not supported"
          [] m = "MPJPE" -> "metric MPJPE is not supported"
          [] m = "Handedness_acc" -> "metric Handedness_acc is not supported"
          [] OTHER -> "metric PCK is not supported")

SetMin(S) == CHOOSE x \in S : \A y \in S : x <= y

\* lines 332-351: the KeyError one batch ends in, in statement order
BatchError(batch, ms) ==
    IF "preds" \notin batch.has /\ InList("MPJPE", ms)
    THEN NotSupported("MPJPE")
    ELSE IF "hand_type" \notin batch.has /\ InList("Handedness_acc", ms)
    THEN NotSupported("Handedness_acc")
    ELSE IF "rel_root_depth" \notin batch.has /\ InList("MRRPE", ms)
    THEN NotSupported("MRRPE")
    ELSE NoError

\* lines 361-376: the entry of one sample; keys names the optional keys
\* 'keypoints', 'hand_type' (with 'hand_type_score') and 'rel_root_depth'
\* the entry has, v the batch arrays their values are taken from
Kpt(id, has, v) ==
    [center |-> <<Boxes[1], Boxes[2]>>, scale |-> <<Boxes[3], Boxes[4]>>,
     area |-> Boxes[5], score |-> Boxes[6],
     image_id |-> id.image_id, bbox_id |-> id.bbox_id,
     keys |-> has, v |-> v]

BatchKpts(batch, pos) ==
    [i \in 1 .. Len(batch.ids) |-> Kpt(batch.ids[i], batch.has, VariantOf(pos))]

\* _sort_and_unique_bboxes of the base class: stable sort by image id, then
\* bbox id; of the entries with one (image id, bbox id) the last one is kept
KeyLeq(a, b) ==
    \/ a.image_id < b.image_id
    \/ a.image_id = b.image_id /\ a.bbox_id <= b.bbox_id
SameKey(a, b) == a.image_id = b.image_id /\ a.bbox_id = b.bbox_id

RECURSIVE InsertByKey(_, _)
InsertByKey(s, r) ==
    IF s = <<>> THEN <<r>>
    ELSE IF KeyLeq(s[Len(s)], r) THEN Append(s, r)
    ELSE Append(InsertByKey(SubSeq(s, 1, Len(s) - 1), r), s[Len(s)])

RECURSIVE SortByKey(_)
SortByKey(s) ==
    IF s = <<>> THEN <<>>
    ELSE InsertByKey(SortByKey(SubSeq(s, 1, Len(s) - 1)), s[Len(s)])

RECURSIVE KeepLast(_)
KeepLast(s) ==
    IF Len(s) <= 1 THEN s
    ELSE IF SameKey(s[1], s[2]) THEN KeepLast(Tail(s))
    ELSE <<s[1]>> \o KeepLast(Tail(s))

SortAndUniqueBboxes(s) == KeepLast(SortByKey(s))

-----------------------------------------------------------------------------
(* _report_metric and _get_accuracy *)

RECURSIVE ISqrtFrom(_, _)
ISqrtFrom(n, r) == IF (r + 1) * (r + 1) > n THEN r ELSE ISqrtFrom(n, r + 1)

\* Euclidean norm, rounded down to the grid
Norm(d) == ISqrtFrom(d[1] * d[1] + d[2] * d[2] + d[3] * d[3], 0)

Sub3(a, b) == <<a[1] - b[1], a[2] - b[2], a[3] - b[3]>>

\* sum of f over lo .. hi
RECURSIVE SumTo(_, _, _)
SumTo(f, lo, hi) == IF hi < lo THEN 0 ELSE f[hi] + SumTo(f, lo, hi - 1)

\* a mean as its numerator and its divisor; the mean of nothing is NaN
Mean(sum, n) == [sum |-> sum, n |-> n]
IsNaN(value) == value.n = 0

\* keypoint_epe of mmpose.core.evaluation: the mean, over the positions the
\* mask selects, of the norm of pred - gt; an error when it selects none.
\* pred, gt, mask: one function over the points 0 .. (k - 1) per sample
KeypointEpe(pred, gt, mask, k) ==
    LET N == Len(mask)
        dist == [i \in 1 .. N |->
                    [j \in 0 .. (k - 1) |->
                        IF mask[i][j] THEN Norm(Sub3(pred[i][j], gt[i][j])) ELSE 0]]
        cnt == [i \in 1 .. N |-> Cardinality({j \in 0 .. (k - 1) : mask[i][j]})]
        sums == [i \in 1 .. N |-> SumTo(dist[i], 0, k - 1)]
        n == SumTo(cnt, 1, N)
    IN  IF n = 0
        THEN [err |-> Err("ValueError", "mask selects no position"), value |-> Mean(0, 0)]
        ELSE [err |-> NoError, value |-> Mean(SumTo(sums, 1, N), n)]

\* _get_accuracy, lines 404-405: acc = (outputs == gts).all(axis=1), which
\* needs two axes; np.mean(acc[masks]) is NaN when masks selects nothing
GetAccuracy(outs, gts, msk) ==
    LET N == Len(outs)
        acc == [i \in 1 .. N |-> IF outs[i] = gts[i] THEN 1 ELSE 0]
        sel == {i \in 1 .. N : msk[i]}
        hit == [i \in 1 .. N |-> IF msk[i] THEN acc[i] ELSE 0]
    IN  IF N = 0
        THEN [err |-> Err("AxisError", "axis 1"), value |-> Mean(0, 0)]
        ELSE [err |-> NoError, value |-> Mean(SumTo(hit, 1, N), Cardinality(sel))]

\* line 421: json.load gives the keypoints back as nested lists; line 443
\* takes one row of them, a list with one axis
RootRow == [kind |-> "list", ndim |-> 1]
\* line 464: np.array(pred['keypoints']) has the axes (joint, coordinate)
JointArray == [kind |-> "ndarray", ndim |-> 2]

\* _pixel2cam indexes its argument as pixel_coord[:, 0]
Pixel2CamArgError(arg) ==
    IF arg.kind # "ndarray" THEN Err("TypeError", "list indices")
    ELSE IF arg.ndim < 2 THEN Err("IndexError", "too many indices")
    ELSE NoError

\* lines 439-440
MrrpeValid(item) ==
    /\ item.hand_type[1] # 0 /\ item.hand_type[2] # 0
    /\ item.joints_3d_visible[RightWrist][1] # 0
    /\ item.joints_3d_visible[LeftWrist][1] # 0

\* item['hand_type'].any() in the place of line 483's .all()
InteractingAny(item) == item.hand_type[1] # 0 \/ item.hand_type[2] # 0

\* line 483: item['hand_type'].all()
Interacting(item) == item.hand_type[1] # 0 /\ item.hand_type[2] # 0

\* lines 438-498: the exception the loop body ends in for one pair, or
\* NoError.  The entry has every key lines 336-351 check for a requested
\* metric; 'keypoints' is not checked for MRRPE
PairError(pred, item, ms) ==
    LET mrrpe == IF InList("MRRPE", ms) /\ MrrpeValid(item)
                 THEN IF "preds" \notin pred.keys THEN Err("KeyError", "keypoints")
                      ELSE Pixel2CamArgError(RootRow)
                 ELSE NoError
        mpjpe == IF InList("MPJPE", ms) THEN Pixel2CamArgError(JointArray) ELSE NoError
    IN  IF mrrpe # NoError THEN mrrpe ELSE mpjpe

\* the prediction arrays of an entry of the results file: those of the batch
\* it came from, for the image it names
ItemOfImage(items, image_id) == items[image_id + 1]

\* lines 443-457: predicted and ground-truth offset of the left root from the
\* right one
PredRelRoot(pred, item, items) ==
    LET src == ItemOfImage(items, pred.image_id)
        kp == PredKeypoints(src, pred.v)
        l == [kp[LeftWrist] EXCEPT
                ![3] = @ + item.abs_depth[1] + PredRelRootDepth(src, pred.v)]
        r == [kp[RightWrist] EXCEPT ![3] = @ + item.abs_depth[1]]
    IN  Sub3(Pixel2Cam(l, item.focal, item.princpt),
             Pixel2Cam(r, item.focal, item.princpt))
GtRelRoot(item) == Sub3(item.joints_cam[LeftWrist], item.joints_cam[RightWrist])

\* lines 464-474: predicted joints in camera space, each hand relative to
\* its wrist
PredJointCam(pred, item, items) ==
    LET kp == PredKeypoints(ItemOfImage(items, pred.image_id), pred.v)
        cam == [j \in Joints |->
                   Pixel2Cam([kp[j] EXCEPT ![3] = @ +
                                 (IF j < JointsPerHand THEN item.abs_depth[1]
                                                       ELSE item.abs_depth[2])],
                             item.focal, item.princpt)]
    IN  [j \in Joints |->
            Sub3(cam[j], cam[IF j < JointsPerHand THEN RightWrist ELSE LeftWrist])]

\* lines 465, 475-476
GtJointCam(item) ==
    [j \in Joints |->
        Sub3(item.joints_cam[j],
             item.joints_cam[IF j < JointsPerHand THEN RightWrist ELSE LeftWrist])]

\* line 481
VisMask(item) == [j \in Joints |-> item.joints_3d_visible[j][1] > 0]
NoJoint == [j \in Joints |-> FALSE]

\* the mask lists when the loop has run over the pairs 1 .. upto in full and,
\* with at > 0, has raised in pair at = upto + 1, after line 441 or 459
MaskLists(items, ms, upto, at) ==
    [rel_root |->
        IF InList("MRRPE", ms)
        THEN [i \in 1 .. upto |-> MrrpeValid(items[i])]
               \o (IF at > 0 THEN <<MrrpeValid(items[at])>> ELSE <<>>)
        ELSE <<>>,
     all |->
        IF InList("MPJPE", ms) THEN [i \in 1 .. upto |-> VisMask(items[i])] ELSE <<>>,
     single |->
        IF InList("MPJPE", ms)
        THEN [i \in 1 .. upto |->
                 IF Interacting(items[i]) THEN NoJoint ELSE VisMask(items[i])]
        ELSE <<>>,
     interacting |->
        IF InList("MPJPE", ms)
        THEN [i \in 1 .. upto |->
                 IF Interacting(items[i]) THEN VisMask(items[i]) ELSE NoJoint]
        ELSE <<>>,
     hand_type |->
        IF InList("Handedness_acc", ms)
        THEN [i \in 1 .. upto |-> items[i].hand_type_valid]
        ELSE <<>>]

\* lines 512-532: the values in the order they are appended to info_str, up
\* to the first that raises
RECURSIVE Compute(_, _)
Compute(todo, done) ==
    IF todo = <<>> THEN [err |-> NoError, info |-> done]
    ELSE IF todo[1][2].err # NoError THEN [err |-> todo[1][2].err, info |-> done]
    ELSE Compute(Tail(todo), Append(done, <<todo[1][1], todo[1][2].value>>))

\* _report_metric: [err, masks, info]
ReportMetric(preds, items, ms) ==
    IF Len(preds) # Len(items)
    THEN [err |-> Err("AssertionError", "len(preds) == len(self.db)"),
          masks |-> NoMasks, info |-> <<>>]
    ELSE
    LET N == Len(items)
        bad == {i \in 1 .. N : PairError(preds[i], items[i], ms) # NoError}
    IN  IF bad # {}
        THEN LET k == SetMin(bad)
             IN  [err |-> PairError(preds[k], items[k], ms),
                  masks |-> MaskLists(items, ms, k - 1, k),
                  info |-> <<>>]
        ELSE
        LET m == MaskLists(items, ms, N, 0)
            pj == [i \in 1 .. N |-> PredJointCam(preds[i], items[i], items)]
            gj == [i \in 1 .. N |-> GtJointCam(items[i])]
            one == [i \in 1 .. N |-> [j \in {0} |-> m.rel_root[i]]]
            pr == [i \in 1 .. N |->
                      [j \in {0} |-> IF m.rel_root[i]
                                     THEN PredRelRoot(preds[i], items[i], items)
                                     ELSE <<0, 0, 0>>]]
            gr == [i \in 1 .. N |->
                      [j \in {0} |-> IF m.rel_root[i] THEN GtRelRoot(items[i])
                                     ELSE <<0, 0, 0>>]]
            todo ==
                (IF InList("MRRPE", ms)
                 THEN <<<<"MRRPE", KeypointEpe(pr, gr, one, 1)>>>> ELSE <<>>)
                \o (IF InList("MPJPE", ms)
                    THEN << <<"MPJPE_all", KeypointEpe(pj, gj, m.all, num_joints)>>,
                            <<"MPJPE_single", KeypointEpe(pj, gj, m.single, num_joints)>>,
                            <<"MPJPE_interacting",
                              KeypointEpe(pj, gj, m.interacting, num_joints)>> >>
                    ELSE <<>>)
                \o (IF InList("Handedness_acc", ms)
                    THEN <<<<"Handedness_acc",
                             GetAccuracy(
                                 [i \in 1 .. N |->
                                     PredHandType(ItemOfImage(items, preds[i].image_id),
                                                  preds[i].v)],
                                 [i \in 1 .. N |-> items[i].hand_type],
                                 m.hand_type)>>>>
                    ELSE <<>>)
            c == Compute(todo, <<>>)
        IN  [err |-> c.err, masks |-> m, info |-> c.info]

-----------------------------------------------------------------------------
(* One call of evaluate *)

EvalDbs == {DbOf(anns) : anns \in SeqsUpTo(EvalAnnotations, MaxImgs)}

InitEval ==
    /\ pc = "evaluate"
    /\ error = NoError
    /\ use_gt_root_depth = TRUE
    /\ rootnet_arg = [given |-> FALSE, table |-> NoTable]
    /\ img_ids = <<>>
    /\ rootnet_result_file = NoFile
    /\ db \in EvalDbs
    /\ rootnet_result = Unbound
    /\ gt_db = <<>>
    /\ bbox_id = 0
    /\ img_pos = 1
    /\ table_read = FALSE
    /\ metric \in MetricSelections
    /\ outputs \in OutputsOf(Len(db))
    /\ batch_pos = 1
    /\ kpts = <<>>
    /\ res_file = NoResFile
    /\ masks = NoMasks
    /\ name_value = <<>>

\* lines 322-330: the metric names are checked, then the loop is entered
EvalEnter ==
    /\ pc = "evaluate"
    /\ IF Unsupported(metric) # {}
       THEN /\ Raise(NotSupported(metric[SetMin(Unsupported(metric))]))
            /\ UNCHANGED <<kpts, batch_pos>>
       ELSE /\ pc' = "batches"
            /\ kpts' = <<>>
            /\ batch_pos' = 1
            /\ UNCHANGED error
    /\ UNCHANGED <<metric, outputs, res_file, masks, name_value, db>>
    /\ UNCHANGED dbVars

\* lines 331-378: one output batch
EvalBatch ==
    /\ pc = "batches"
    /\ batch_pos <= Len(outputs)
    /\ LET batch == outputs[batch_pos]
           e == BatchError(batch, metric)
       IN  IF e # NoError
           THEN /\ Raise(e)
                /\ UNCHANGED kpts
           ELSE /\ kpts' = kpts \o BatchKpts(batch, batch_pos)
                /\ UNCHANGED <<pc, error>>
    /\ batch_pos' = batch_pos + 1
    /\ UNCHANGED <<metric, outputs, res_file, masks, name_value, db>>
    /\ UNCHANGED dbVars

\* lines 379-381: the entries are sorted, deduplicated and written
EvalWrite ==
    /\ pc = "batches"
    /\ batch_pos > Len(outputs)
    /\ kpts' = SortAndUniqueBboxes(kpts)
    /\ res_file' = [written |-> TRUE, preds |-> kpts']
    /\ pc' = "report"
    /\ UNCHANGED <<error, metric, outputs, batch_pos, masks, name_value, db>>
    /\ UNCHANGED dbVars

\* lines 382-385: _report_metric reads the file back; its list is returned
EvalReport ==
    /\ pc = "report"
    /\ LET r == ReportMetric(res_file.preds, db, metric)
       IN  /\ masks' = r.masks
           /\ IF r.err # NoError
              THEN /\ Raise(r.err)
                   /\ UNCHANGED name_value
              ELSE /\ name_value' = r.info
                   /\ pc' = "returned"
                   /\ UNCHANGED error
    /\ UNCHANGED <<metric, outputs, batch_pos, kpts, res_file, db>>
    /\ UNCHANGED dbVars

NextEval == EvalEnter \/ EvalBatch \/ EvalWrite \/ EvalReport

SpecEval == InitEval /\ [][NextEval]_vars

-----------------------------------------------------------------------------
(* Claims about evaluate, checked under SpecEval *)

HasUnsupported == \E i \in 1 .. Len(metric) : metric[i] \notin allowed_metrics

\* C1: when the metric selection holds a name outside MRRPE, MPJPE and
\* Handedness_acc, at whatever position, the call does nothing but raise the
\* KeyError: no output batch is read, no results file is written, no mask or
\* metric value is computed, nothing is returned.
C1_UnsupportedMetricRaisesFirst ==
    HasUnsupported =>
        /\ pc \in {"evaluate", "raised"}
        /\ pc = "raised" => error.type = "KeyError"
        /\ batch_pos = 1
        /\ kpts = <<>>
        /\ ~res_file.written
        /\ masks = NoMasks
        /\ name_value = <<>>

\* the call has raised on a list whose second name is the unsupported one,
\* with output batches waiting that hold samples
C1_Witness ==
    /\ pc = "raised"
    /\ error = NotSupported("PCK")
    /\ Len(metric) = 2
    /\ metric[1] \in allowed_metrics
    /\ metric[2] \notin allowed_metrics
    /\ Len(outputs) = 2
    /\ outputs[1].ids # <<>>
    /\ outputs[1].has = Fields

\* the prediction fields a metric reads
Required(m) ==
    IF m = "MPJPE" THEN {"preds"}
    ELSE IF m = "MRRPE" THEN {"preds", "rel_root_depth"}
    ELSE IF m = "Handedness_acc" THEN {"hand_type"}
    ELSE {}

LacksField(m) ==
    /\ InList(m, metric)
    /\ \E b \in 1 .. Len(outputs) : ~(Required(m) \subseteq outputs[b].has)

\* C2: when a batch lacks a prediction field a requested metric requires
\* (keypoints for MPJPE; keypoints and relative root depth for MRRPE; hand
\* type for Handedness_acc), no results file is written, no value is returned,
\* metric computation is not reached, and the error raised names a requested
\* metric that lacks a field.
C2_MissingFieldRaises ==
    (~HasUnsupported /\ \E m \in allowed_metrics : LacksField(m)) =>
        /\ ~res_file.written
        /\ name_value = <<>>
        /\ pc \notin {"report", "returned"}
        /\ pc = "raised" =>
              \E m \in allowed_metrics : LacksField(m) /\ error = NotSupported(m)

\* a sample the claim C3 calls masked out
C3Excluded(item) ==
    \/ ~item.hand_type_valid
    \/ item.joints_3d_visible[RightWrist][1] = 0
    \/ item.joints_3d_visible[LeftWrist][1] = 0

EntryOf(name) ==
    CHOOSE e \in {name_value[i] : i \in 1 .. Len(name_value)} : e[1] = name
Reported(name) == \E i \in 1 .. Len(name_value) : name_value[i][1] = name

AllFieldsGiven == \A b \in 1 .. Len(outputs) : outputs[b].has = Fields

\* C3: in the MRRPE computation (every batch having every field) a sample
\* whose hand_type_valid is False, or one of whose wrists is invisible, gets
\* the mask False, and a reported MRRPE divides by the number of the other
\* samples only.
C3_InvalidSamplesMaskedOut ==
    AllFieldsGiven =>
        /\ \A i \in 1 .. Len(masks.rel_root) :
              (i <= Len(db) /\ C3Excluded(db[i])) => ~masks.rel_root[i]
        /\ (pc = "returned" /\ Reported("MRRPE")) =>
              EntryOf("MRRPE")[2].n <=
                  Cardinality({i \in 1 .. Len(db) : ~C3Excluded(db[i])})

\* the number of positions the mask of a reported value selects
Selected(name) ==
    IF name = "MRRPE" THEN Cardinality({i \in 1 .. Len(masks.rel_root) : masks.rel_root[i]})
    ELSE IF name = "Handedness_acc"
    THEN Cardinality({i \in 1 .. Len(masks.hand_type) : masks.hand_type[i]})
    ELSE LET m == IF name = "MPJPE_all" THEN masks.all
                  ELSE IF name = "MPJPE_single" THEN masks.single
                  ELSE masks.interacting
         IN  Cardinality({p \in (1 .. Len(m)) \X Joints : m[p[1]][p[2]]})

\* C4: no value is returned for a metric whose mask selects no position, and
\* no returned value is NaN.
C4_EmptyMaskRaises ==
    pc = "returned" =>
        \A i \in 1 .. Len(name_value) :
            /\ Selected(name_value[i][1]) > 0
            /\ ~IsNaN(name_value[i][2])

\* C10: in a call that computes and returns metric values, the i-th
\* prediction is the one of the i-th record: same bbox_id and same image.
C10_PairedWithOwnRecord ==
    (pc = "returned" /\ name_value # <<>>) =>
        /\ Len(res_file.preds) = Len(db)
        /\ \A i \in 1 .. Len(db) :
              /\ res_file.preds[i].bbox_id = db[i].bbox_id
              /\ res_file.preds[i].image_id = db[i].image_id

\* the j-th visibility flag of the i-th record, and whether the record is of
\* two interacting hands
FlagSet(i, j) == db[i].joints_3d_visible[j][1] > 0
BothHands(i) == db[i].hand_type = <<1, 1>>

\* C11: when MPJPE is requested the three mask lists hold one mask per
\* sample handled, paired with the records by position, and all of them when
\* the call returns.  A sample's 'all' mask is its visibility flags; with
\* hand_type (1,1) its 'interacting' mask is those flags and its 'single'
\* mask all false, otherwise the other way round.  So single and interacting
\* are disjoint, their union is all, and a joint with flag 0 is in no mask.
C11_MpjpeMasksPartition ==
    InList("MPJPE", metric) =>
        /\ Len(masks.single) = Len(masks.all)
        /\ Len(masks.interacting) = Len(masks.all)
        /\ Len(masks.all) <= Len(db)
        /\ pc = "returned" => Len(masks.all) = Len(db)
        /\ \A i \in 1 .. Len(masks.all) :
              /\ masks.all[i] = [j \in Joints |-> FlagSet(i, j)]
              /\ BothHands(i) =>
                    /\ masks.interacting[i] = masks.all[i]
                    /\ \A j \in Joints : ~masks.single[i][j]
              /\ ~BothHands(i) =>
                    /\ masks.single[i] = masks.all[i]
                    /\ \A j \in Joints : ~masks.interacting[i][j]
              /\ \A j \in Joints :
                    /\ ~(masks.single[i][j] /\ masks.interacting[i][j])
                    /\ masks.all[i][j] = (masks.single[i][j] \/ masks.interacting[i][j])
                    /\ ~FlagSet(i, j) =>
                          /\ ~masks.all[i][j]
                          /\ ~masks.single[i][j]
                          /\ ~masks.interacting[i][j]

\* a call for MPJPE alone returns its three values for a record of two
\* interacting hands with a hidden joint followed by one of a single hand
C11_Witness ==
    /\ pc = "returned"
    /\ metric = <<"MPJPE">>
    /\ Len(name_value) = 3
    /\ Len(db) = 2
    /\ Len(masks.all) = 2
    /\ BothHands(1)
    /\ ~BothHands(2)
    /\ \E j \in Joints : ~FlagSet(1, j)
    /\ \E j \in Joints : masks.interacting[1][j]
    /\ \E j \in Joints : masks.single[2][j]

-----------------------------------------------------------------------------
(* Claims about construction, checked under SpecDb *)

SupportedLabels ==
    \A i \in 1 .. Len(img_ids) : ProcessHandtype(img_ids[i].hand_type) # <<>>

AllHaveEntries ==
    \A i \in 1 .. Len(img_ids) : HasEntry(rootnet_arg.table, AnnIdOf(i - 1))

\* C5: with ground-truth root depth and no root-depth-estimate table,
\* construction completes without reading a table, and every record has the
\* center and scale of the annotation's box padded by 1.25 and the camera
\* depths of the two wrists as abs_depth.
C5_GtDepthNeedsNoTable ==
    (use_gt_root_depth /\ ~rootnet_arg.given /\ SupportedLabels) =>
        /\ pc # "raised"
        /\ ~table_read
        /\ pc = "constructed" =>
              /\ Len(db) = Len(img_ids)
              /\ \A i \in 1 .. Len(db) :
                    LET ann == img_ids[i]
                        cs == Xywh2cs(AnnBbox(ann.capture), PadGt)
                    IN  /\ db[i].center = cs.center
                        /\ db[i].scale = cs.scale
                        /\ db[i].abs_depth = <<JointCam(ann)[RightWrist][3],
                                               JointCam(ann)[LeftWrist][3]>>

\* C6: with the external estimator and a table, an image whose annotation has
\* an entry yields a record with the entry's box padded by 1.0 and the
\* entry's abs_depth; a missing entry ends construction in a lookup error.
C6_RootnetTableUsed ==
    (~use_gt_root_depth /\ rootnet_arg.given /\ SupportedLabels) =>
        /\ (pc = "raised" /\ AllHaveEntries) => FALSE
        /\ pc = "raised" => error.type = "KeyError"
        /\ pc = "constructed" =>
              /\ AllHaveEntries
              /\ Len(db) = Len(img_ids)
              /\ \A i \in 1 .. Len(db) :
                    LET e == Lookup(rootnet_arg.table, AnnIdOf(i - 1))
                        cs == Xywh2cs(e.bbox, PadRootnet)
                    IN  /\ db[i].center = cs.center
                        /\ db[i].scale = cs.scale
                        /\ db[i].abs_depth = e.abs_depth

\* the configuration in which __init__ and the box branch of _get_db pass
TablePassed == use_gt_root_depth /\ rootnet_arg.given /\ SupportedLabels

\* C7: every annotated image yields a record whose joints_3d holds, per
\* joint, the pixel x and y and the camera depth relative to the wrist of the
\* joint's hand.
C7_Joints3dRelativeDepth ==
    TablePassed =>
        /\ pc # "raised"
        /\ \A i \in 1 .. Len(gt_db) :
              LET ann == img_ids[i]
                  cam == Cameras(ann.capture)
                  jc == JointCam(ann)
              IN  \A j \in Joints :
                     LET px == Cam2Pixel(jc[j], cam.focal, cam.princpt)
                         root == IF j \in RightHand THEN RightWrist ELSE LeftWrist
                     IN  gt_db[i].joints_3d[j] = <<px[1], px[2], jc[j][3] - jc[root][3]>>

C9_BboxIdsInProcessingOrder ==
    TablePassed =>
        /\ pc \in {"constructed", "raised"} =>
              /\ pc = "constructed"
              /\ Len(db) = Len(img_ids)
              /\ db = gt_db
        /\ \A i \in 1 .. Len(gt_db) : gt_db[i].bbox_id = i - 1

====
